---- MODULE Spec2Model ----
(***************************************************************************)
(* Event relay of servidor-breb (src/index.js): the webhook handler        *)
(* POST /api/v1/notify, the dashboard session list `clients` fed by        *)
(* GET /events, the MQTT client and the two Supabase tables the handler    *)
(* reads (devices) and writes (transactions).                              *)
(*                                                                         *)
(* JavaScript runs each callback to completion, so one action is the code  *)
(* between two awaits of a handler, or one whole event callback.           *)
(***************************************************************************)
EXTENDS Integers, Sequences, FiniteSets, TLC

VARIABLES
    now,            \* the last value read from the clock (Date.now(), new Date())
    reqs,           \* the calls of the /api/v1/notify handler, in arrival order, each with
                    \* its locals, its position (pc) and the responses sent (response)
    conns,          \* the GET /events requests, in arrival order (req, res and closure)
    clients,        \* let clients = []  (line 51)
    mqttConnected,  \* mqttClient && mqttClient.connected
    published,      \* the mqttClient.publish calls made, with their callback's outcome
    ledger          \* rows of table transactions

vars == <<now, reqs, conns, clients, mqttConnected, published, ledger>>

-----------------------------------------------------------------------------
(* Bounds of the model *)

MaxReq == 2     \* webhook calls handled
MaxConn == 2    \* dashboard connections opened
MaxClock == 1   \* times the clock is seen to have advanced
MaxLiveConn == 1    \* dashboard connections opened, where progress is checked

-----------------------------------------------------------------------------
(* Values *)

Undefined == "undefined"     \* a missing JSON field, a null column, no session user
NoError == "none"

Completed == "transaction.completed"

Accounts == {"A1", "A2"}

\* Rows of table devices (serial_number UNIQUE -> user_id); read-only here.
devices == [d \in {"DEV-001", "DEV-002"} |-> IF d = "DEV-001" THEN "A1" ELSE "A2"]

\* Bodies the webhook source sends.
Bodies ==
    { [event_type |-> Completed, id |-> "tx-1", amount |-> 15000, terminal_id |-> "DEV-001"],
      [event_type |-> Completed, id |-> "tx-2", amount |-> 700, terminal_id |-> "DEV-002"],
      [event_type |-> Completed, id |-> "tx-1", amount |-> 15000, terminal_id |-> "DEV-999"],
      [event_type |-> Completed, id |-> Undefined, amount |-> 15000, terminal_id |-> "DEV-001"],
      [event_type |-> Completed, id |-> "tx-2", amount |-> 700, terminal_id |-> Undefined],
      [event_type |-> "transaction.failed", id |-> "tx-1", amount |-> 15000, terminal_id |-> "DEV-001"] }

-----------------------------------------------------------------------------
(* Pure helpers *)

Digit(d) == <<"0", "1", "2", "3", "4", "5", "6", "7", "8", "9">>[d + 1]

\* String(n) / n.toString() of a non-negative integer
RECURSIVE String(_)
String(n) == IF n < 10 THEN Digit(n) ELSE String(n \div 10) \o Digit(n % 10)

\* a || b
OrElse(a, b) == IF a = Undefined THEN b ELSE a

\* transactionData.metadata?.terminal_id || 'dispositivo_desconocido'
DeviceSerialNumber(body) == OrElse(body.terminal_id, "dispositivo_desconocido")

\* transactionData.id || new Date().getTime().toString()
TransactionId(body, t) == OrElse(body.id, String(t))

\* Mutant of Topic: the topic of one fixed device
TopicFixedDevice(serial) == "/HMZN/DEV-001"

\* `/HMZN/${deviceSerialNumber}`
Topic(serial) == "/HMZN/" \o serial

\* { request_id: transactionId, money: String(amount) }
Message(tid, amount) == [request_id |-> tid, money |-> String(amount)]

\* Mutant of DevicesSelect: the .eq('serial_number', s) filter lost, a row is returned
DevicesSelectAnyRow(serial, fails) ==
    IF fails THEN [data |-> Undefined, error |-> "unavailable"]
    ELSE [data |-> devices["DEV-001"], error |-> NoError]

\* supabase.from('devices').select('user_id').eq('serial_number', s).single():
\* one row gives data, no row gives an error and no data, as does a failed call.
DevicesSelect(serial, fails) ==
    IF fails THEN [data |-> Undefined, error |-> "unavailable"]
    ELSE IF serial \in DOMAIN devices THEN [data |-> devices[serial], error |-> NoError]
    ELSE [data |-> Undefined, error |-> "no rows"]

\* Mutant of Recognised: the event type test lost
RecognisedAny(eventType) == TRUE

\* if (eventType === 'transaction.completed')
Recognised(eventType) == eventType = Completed

\* Mutant of OwnerMissing: && for ||, and the negation lost
OwnerMissingBoth(ownerError, deviceOwner) == ownerError # NoError /\ deviceOwner # Undefined

\* if (ownerError || !deviceOwner)
OwnerMissing(ownerError, deviceOwner) == ownerError # NoError \/ deviceOwner = Undefined

\* What a read of the clock may return after the last one: time does not go back.
ClockReads(last) == {last} \cup (IF last < 1 + MaxClock THEN {last + 1} ELSE {})

RequestIds(rows) == {rows[i].request_id : i \in 1..Len(rows)}

\* Mutant of TransactionsInsert: request_id TEXT without UNIQUE
TransactionsInsertNoUnique(rows, row, fails) ==
    IF fails THEN [rows |-> rows, error |-> "unavailable"]
    ELSE [rows |-> Append(rows, row), error |-> NoError]

\* supabase.from('transactions').insert([row]) against request_id TEXT UNIQUE:
\* the store adds the row, or refuses it (duplicate key, or a failure of its own).
TransactionsInsert(rows, row, fails) ==
    IF fails THEN [rows |-> rows, error |-> "unavailable"]
    ELSE IF row.request_id \in RequestIds(rows) THEN [rows |-> rows, error |-> "duplicate"]
    ELSE [rows |-> Append(rows, row), error |-> NoError]

\* History of a request identifier when a call carrying it arrives: "never" seen
\* (no row and no earlier call with it), "completed" (its row is in the ledger and
\* every earlier call with it has been answered), or "other".
IdSeen(rs, rows, tid) ==
    LET earlier == {g \in 1..Len(rs) : rs[g].transactionId = tid} IN
    IF earlier = {} /\ tid \notin RequestIds(rows) THEN "never"
    ELSE IF tid \in RequestIds(rows) /\ \A g \in earlier : rs[g].pc = "done" THEN "completed"
    ELSE "other"

\* Mutant of ClientMatches: the account test lost
ClientMatchesAny(client, userId) == TRUE

\* if (client.userId === userId)
ClientMatches(client, userId) == client.userId = userId

\* sendEventToClients: clients.forEach from entry i on, with the frames written so
\* far in cs. A res.write that raises ends the loop and propagates to the caller.
RECURSIVE SendFrom(_, _, _, _, _)
SendFrom(i, list, cs, userId, data) ==
    IF i > Len(list) THEN [conns |-> cs, threw |-> FALSE]
    ELSE IF ~ClientMatches(list[i], userId) THEN SendFrom(i + 1, list, cs, userId, data)
    ELSE IF cs[list[i].res].state = "erroring" THEN [conns |-> cs, threw |-> TRUE]
    ELSE SendFrom(i + 1, list,
                  [cs EXCEPT ![list[i].res].frames = Append(@, data)], userId, data)

\* Mutant of sendEventToClients: the loop ends after the first session written
sendEventToFirstClient(list, cs, userId, data) ==
    LET mine == {i \in 1..Len(list) : ClientMatches(list[i], userId)} IN
    IF mine = {} THEN [conns |-> cs, threw |-> FALSE]
    ELSE LET i == CHOOSE j \in mine : \A k \in mine : j <= k IN
         IF cs[list[i].res].state = "erroring" THEN [conns |-> cs, threw |-> TRUE]
         ELSE [conns |-> [cs EXCEPT ![list[i].res].frames = Append(@, data)],
               threw |-> FALSE]

sendEventToClients(list, cs, userId, data) == SendFrom(1, list, cs, userId, data)

\* Mutant of FilterOut: clients.splice(clients.findIndex(c => c.id === clientId), 1),
\* which removes the first match only, and the last entry when there is none
FilterOutSplice(list, clientId) ==
    LET hits == {i \in 1..Len(list) : list[i].id = clientId}
        k == IF hits = {} THEN Len(list) ELSE CHOOSE i \in hits : \A j \in hits : i <= j
    IN  [i \in 1..(IF list = <<>> THEN 0 ELSE Len(list) - 1) |->
            IF i < k THEN list[i] ELSE list[i + 1]]

\* clients.filter(c => c.id !== clientId)
RECURSIVE FilterOut(_, _)
FilterOut(list, clientId) ==
    IF list = <<>> THEN <<>>
    ELSE IF Head(list).id # clientId THEN <<Head(list)>> \o FilterOut(Tail(list), clientId)
    ELSE FilterOut(Tail(list), clientId)

\* requireLogin: if (!req.session.userId) return res.redirect('/')
requireLogin(sessionUserId) == sessionUserId # Undefined

-----------------------------------------------------------------------------
(* Initial state: the process has started, nothing has arrived yet *)

Init ==
    /\ now = 1
    /\ reqs = <<>>
    /\ conns = <<>>
    /\ clients = <<>>
    /\ mqttConnected = FALSE
    /\ published = <<>>
    /\ ledger = <<>>

-----------------------------------------------------------------------------
(* POST /api/v1/notify *)

\* Lines 97-112: the call arrives; an unrecognised event type is answered at once
\* (line 148), a recognised one extracts its fields and awaits the owner lookup.
Notify(body, t) ==
    /\ Len(reqs) < MaxReq
    /\ (body.id # Undefined => t = now)
    /\ now' = t
    /\ reqs' = Append(reqs,
         IF Recognised(body.event_type)
         THEN [body |-> body, pc |-> "awaitOwner",
               deviceSerialNumber |-> DeviceSerialNumber(body),
               amount |-> body.amount,
               transactionId |-> TransactionId(body, t),
               userId |-> Undefined, trxError |-> NoError, response |-> <<>>,
               idSeen |-> IdSeen(reqs, ledger, TransactionId(body, t))]
         ELSE [body |-> body, pc |-> "done",
               deviceSerialNumber |-> Undefined, amount |-> 0,    \* never read
               transactionId |-> Undefined,
               userId |-> Undefined, trxError |-> NoError, response |-> <<200>>,
               idSeen |-> "other"])
    /\ UNCHANGED <<conns, clients, mqttConnected, published, ledger>>

\* Mutant of OwnerResolved: the return of line 116 lost, the handler goes on after 404
OwnerResolvedNoReturn(h, fails) ==
    /\ reqs[h].pc = "awaitOwner"
    /\ LET r == DevicesSelect(reqs[h].deviceSerialNumber, fails) IN
         reqs' = [reqs EXCEPT ![h] =
            IF OwnerMissing(r.error, r.data)
            THEN [@ EXCEPT !.pc = "awaitInsert", !.response = Append(@, 404)]
            ELSE [@ EXCEPT !.pc = "awaitInsert", !.userId = r.data]]
    /\ UNCHANGED <<now, conns, clients, mqttConnected, published, ledger>>

\* Lines 108-127: the lookup resolves; no owner answers 404 and returns, an owner
\* sends the insert.
OwnerResolved(h, fails) ==
    /\ reqs[h].pc = "awaitOwner"
    /\ LET r == DevicesSelect(reqs[h].deviceSerialNumber, fails) IN
         reqs' = [reqs EXCEPT ![h] =
            IF OwnerMissing(r.error, r.data)
            THEN [@ EXCEPT !.pc = "done", !.response = Append(@, 404)]
            ELSE [@ EXCEPT !.pc = "awaitInsert", !.userId = r.data]]
    /\ UNCHANGED <<now, conns, clients, mqttConnected, published, ledger>>

\* Lines 121-127, in the store: the insert is executed and its result is on its way.
InsertExecuted(h, fails) ==
    /\ reqs[h].pc = "awaitInsert"
    /\ LET r == TransactionsInsert(ledger,
                   [user_id |-> reqs[h].userId,
                    device_serial_number |-> reqs[h].deviceSerialNumber,
                    amount |-> reqs[h].amount,
                    request_id |-> reqs[h].transactionId,
                    status |-> "Completada"], fails) IN
         /\ ledger' = r.rows
         /\ reqs' = [reqs EXCEPT ![h].pc = "inserted", ![h].trxError = r.error]
    /\ UNCHANGED <<now, conns, clients, mqttConnected, published>>

\* Mutant of InsertResolved: the publish acknowledgement is awaited before
\* res.status(200).send, so the handler waits after a publish
InsertResolvedAwaitsPublish(h, t) ==
    /\ reqs[h].pc = "inserted"
    /\ now' = t
    /\ LET dashboardData == [id |-> reqs[h].transactionId,
                             device |-> reqs[h].deviceSerialNumber,
                             amount |-> reqs[h].amount,
                             status |-> "Completada",
                             timestamp |-> t]
           s == sendEventToClients(clients, conns, reqs[h].userId, dashboardData)
       IN
         /\ conns' = s.conns
         /\ IF s.threw
            THEN /\ reqs' = [reqs EXCEPT ![h].pc = "threw"]
                 /\ UNCHANGED published
            ELSE IF mqttConnected
            THEN /\ reqs' = [reqs EXCEPT ![h].pc = "awaitPublish"]
                 /\ published' = Append(published,
                             [topic |-> Topic(reqs[h].deviceSerialNumber),
                              message |-> Message(reqs[h].transactionId, reqs[h].amount),
                              qos |-> 1, callback |-> "pending"])
            ELSE /\ reqs' = [reqs EXCEPT ![h].pc = "done", ![h].response = Append(@, 200)]
                 /\ UNCHANGED published
    /\ UNCHANGED <<clients, mqttConnected, ledger>>

\* Lines 128-148: the insert's result arrives; its error is only logged. The frame
\* is written to the account's sessions, the message is published when the client
\* is connected, and 200 is sent. A write that raises leaves the handler there.
InsertResolved(h, t) ==
    /\ reqs[h].pc = "inserted"
    /\ now' = t
    /\ LET dashboardData == [id |-> reqs[h].transactionId,
                             device |-> reqs[h].deviceSerialNumber,
                             amount |-> reqs[h].amount,
                             status |-> "Completada",
                             timestamp |-> t]
           s == sendEventToClients(clients, conns, reqs[h].userId, dashboardData)
       IN
         /\ conns' = s.conns
         /\ IF s.threw
            THEN /\ reqs' = [reqs EXCEPT ![h].pc = "threw"]
                 /\ UNCHANGED published
            ELSE /\ reqs' = [reqs EXCEPT ![h].pc = "done", ![h].response = Append(@, 200)]
                 /\ published' =
                      IF mqttConnected
                      THEN Append(published,
                             [topic |-> Topic(reqs[h].deviceSerialNumber),
                              message |-> Message(reqs[h].transactionId, reqs[h].amount),
                              qos |-> 1, callback |-> "pending"])
                      ELSE published
    /\ UNCHANGED <<clients, mqttConnected, ledger>>

\* Lines 142-145: the publish callback runs, with or without an error; either way
\* it only logs.
PublishCallback(i, err) ==
    /\ published[i].callback = "pending"
    /\ published' = [published EXCEPT ![i].callback = "called"]
    /\ UNCHANGED <<now, reqs, conns, clients, mqttConnected, ledger>>

-----------------------------------------------------------------------------
(* GET /events *)

\* Lines 176-190 behind requireLogin (61-66): a logged-in request is registered
\* under clientId = Date.now(); any other is redirected and leaves nothing behind.
Events(sessionUserId, t) ==
    IF requireLogin(sessionUserId)
    THEN /\ Len(conns) < MaxConn
         /\ now' = t
         /\ conns' = Append(conns, [state |-> "open", clientId |-> t,
                                    userId |-> sessionUserId, frames |-> <<>>])
         /\ clients' = Append(clients, [id |-> t, userId |-> sessionUserId,
                                        res |-> Len(conns) + 1])
         /\ UNCHANGED <<reqs, mqttConnected, published, ledger>>
    ELSE UNCHANGED vars

\* The client of an open connection goes away; its 'close' has not been delivered
\* yet, and a write to its response raises.
ClientGone(c) ==
    /\ conns[c].state = "open"
    /\ conns' = [conns EXCEPT ![c].state = "erroring"]
    /\ UNCHANGED <<now, reqs, clients, mqttConnected, published, ledger>>

\* Lines 186-189: req.on('close')
Close(c) ==
    /\ conns[c].state \in {"open", "erroring"}
    /\ conns' = [conns EXCEPT ![c].state = "closed"]
    /\ clients' = FilterOut(clients, conns[c].clientId)
    /\ UNCHANGED <<now, reqs, mqttConnected, published, ledger>>

-----------------------------------------------------------------------------
(* Environment *)

\* Lines 43-45: the MQTT client connects, or loses its connection.
MqttConnect ==
    /\ ~mqttConnected
    /\ mqttConnected' = TRUE
    /\ UNCHANGED <<now, reqs, conns, clients, published, ledger>>

MqttDisconnect ==
    /\ mqttConnected
    /\ mqttConnected' = FALSE
    /\ UNCHANGED <<now, reqs, conns, clients, published, ledger>>

-----------------------------------------------------------------------------

Next ==
    \/ \E body \in Bodies, t \in ClockReads(now) : Notify(body, t)
    \/ \E h \in 1..Len(reqs), fails \in BOOLEAN : OwnerResolved(h, fails)
    \/ \E h \in 1..Len(reqs), fails \in BOOLEAN : InsertExecuted(h, fails)
    \/ \E h \in 1..Len(reqs), t \in ClockReads(now) : InsertResolved(h, t)
    \/ \E i \in 1..Len(published), err \in BOOLEAN : PublishCallback(i, err)
    \/ \E u \in Accounts \cup {Undefined}, t \in ClockReads(now) : Events(u, t)
    \/ \E c \in 1..Len(conns) : ClientGone(c)
    \/ \E c \in 1..Len(conns) : Close(c)
    \/ MqttConnect
    \/ MqttDisconnect

Spec == Init /\ [][Next]_vars

\* The store answers every query and the event loop runs every continuation that
\* is ready: a handler's next step is taken once it can be. Nothing makes a
\* publish callback run, a call arrive or a connection open or close.
Fairness ==
    /\ WF_vars(\E h \in 1..Len(reqs), fails \in BOOLEAN : OwnerResolved(h, fails))
    /\ WF_vars(\E h \in 1..Len(reqs), fails \in BOOLEAN : InsertExecuted(h, fails))
    /\ WF_vars(\E h \in 1..Len(reqs), t \in ClockReads(now) : InsertResolved(h, t))

\* The calls and connections under which progress is checked: one transaction from
\* a known and from an unknown device, sent once or twice, and account A1's dashboard.
LiveBodies == {b \in Bodies : b.event_type = Completed /\ b.id = "tx-1"}

LiveNext ==
    \/ \E body \in LiveBodies, t \in ClockReads(now) : Notify(body, t)
    \/ \E h \in 1..Len(reqs), fails \in BOOLEAN : OwnerResolved(h, fails)
    \/ \E h \in 1..Len(reqs), fails \in BOOLEAN : InsertExecuted(h, fails)
    \/ \E h \in 1..Len(reqs), t \in ClockReads(now) : InsertResolved(h, t)
    \/ \E i \in 1..Len(published), err \in BOOLEAN : PublishCallback(i, err)
    \/ \E t \in ClockReads(now) : Len(conns) < MaxLiveConn /\ Events("A1", t)
    \/ \E c \in 1..Len(conns) : ClientGone(c)
    \/ \E c \in 1..Len(conns) : Close(c)
    \/ MqttConnect
    \/ MqttDisconnect

FairSpec == Init /\ [][LiveNext]_vars /\ Fairness

-----------------------------------------------------------------------------
(* Vocabulary of the properties *)

Handlers == 1..Len(reqs)

\* The dashboard sessions registered under account a
Sessions(a) == {clients[i].res : i \in {j \in 1..Len(clients) : clients[j].userId = a}}

\* The step that runs lines 128-148 for call h: log, fan-out, publish, acknowledge
FanOutStep(h) == reqs[h].pc = "inserted" /\ reqs'[h].pc # "inserted"

\* The frame call h pushes
FrameOf(h, f) ==
    /\ f.id = reqs[h].transactionId
    /\ f.device = reqs[h].deviceSerialNumber
    /\ f.amount = reqs[h].amount

\* Session c receives exactly one more frame in this step, the one of call h
ReceivesOnce(c, h) ==
    /\ Len(conns'[c].frames) = Len(conns[c].frames) + 1
    /\ SubSeq(conns'[c].frames, 1, Len(conns[c].frames)) = conns[c].frames
    /\ FrameOf(h, conns'[c].frames[Len(conns'[c].frames)])

\* No session receives anything in this step
NoPush == \A c \in 1..Len(conns) : conns'[c].frames = conns[c].frames

\* Exactly one more message is published in this step, the one of call h
PublishesOnce(h) ==
    /\ Len(published') = Len(published) + 1
    /\ SubSeq(published', 1, Len(published)) = published
    /\ published'[Len(published')].topic = Topic(reqs[h].deviceSerialNumber)
    /\ published'[Len(published')].message.request_id = reqs[h].transactionId

RowsOf(rows, tid) == {i \in 1..Len(rows) : rows[i].request_id = tid}

-----------------------------------------------------------------------------
(* C1 *)

\* C1: for an event whose request identifier was never seen and whose device is
\* known, with the store working and the message-queue client connected, the
\* handling leaves exactly one ledger record of that identifier, pushes once to
\* every connected dashboard session of the owning account, publishes once to the
\* device's topic and runs to its end.
C1_ExactlyOnce ==
    [][\A h \in Handlers :
          (/\ FanOutStep(h)
           /\ reqs[h].idSeen = "never"
           /\ reqs[h].trxError = NoError
           /\ mqttConnected)
          => /\ Cardinality(RowsOf(ledger', reqs[h].transactionId)) = 1
             /\ \A c \in Sessions(reqs[h].userId) :
                    conns[c].state = "open" => ReceivesOnce(c, h)
             /\ PublishesOnce(h)
             /\ reqs'[h].pc = "done"]_vars

-----------------------------------------------------------------------------
(* C2 *)

\* C2: a call that replays the request identifier of an event whose row is in the
\* ledger and whose earlier handling is complete leaves the ledger as it is in
\* each of its steps, and the step that follows its refused insert publishes
\* nothing, pushes nothing and answers 200.
C2_ReplayIsNoOp ==
    [][\A h \in Handlers :
          (/\ reqs[h].idSeen = "completed"
           /\ reqs[h].body.id # Undefined
           /\ reqs'[h] # reqs[h])
          => /\ ledger' = ledger
             /\ (FanOutStep(h) /\ reqs[h].trxError = "duplicate")
                   => /\ published' = published
                      /\ NoPush
                      /\ reqs'[h].response = <<200>>]_vars

-----------------------------------------------------------------------------
(* C3 *)

UnknownDevice(serial) == serial \notin DOMAIN devices

\* C3: a call for a device without owner in table devices goes no further than the
\* owner lookup and is answered 404 and nothing else; no ledger row, no published
\* message and no pushed frame is ever of such a device.
C3_UnknownDeviceRejected ==
    /\ \A h \in Handlers :
          (reqs[h].body.event_type = Completed /\ UnknownDevice(reqs[h].deviceSerialNumber))
          => \/ reqs[h].pc = "awaitOwner" /\ reqs[h].response = <<>>
             \/ reqs[h].pc = "done" /\ reqs[h].response = <<404>>
    /\ \A i \in 1..Len(ledger) : ~UnknownDevice(ledger[i].device_serial_number)
    /\ \A i \in 1..Len(published) :
          \A d \in {reqs[h].deviceSerialNumber : h \in Handlers} :
             published[i].topic = Topic(d) => ~UnknownDevice(d)
    /\ \A c \in 1..Len(conns) : \A k \in 1..Len(conns[c].frames) :
          ~UnknownDevice(conns[c].frames[k].device)

\* An unknown device's call was answered 404 while a session was registered and
\* the message-queue client connected.
C3_Witness ==
    \E h \in Handlers :
       /\ reqs[h].body.event_type = Completed
       /\ UnknownDevice(reqs[h].deviceSerialNumber)
       /\ reqs[h].response = <<404>>
       /\ mqttConnected
       /\ clients # <<>>

-----------------------------------------------------------------------------
(* C4 *)

\* C4: when the insert fails for a reason other than a duplicate, the call is not
\* answered 200, and nothing is published or pushed for it.
C4_PersistenceErrorRejects ==
    [][\A h \in Handlers :
          (FanOutStep(h) /\ reqs[h].trxError = "unavailable")
          => /\ 200 \notin {reqs'[h].response[k] : k \in 1..Len(reqs'[h].response)}
             /\ published' = published
             /\ NoPush]_vars

-----------------------------------------------------------------------------
(* C5 *)

\* C5: every frame a dashboard session has received is of a device owned by the
\* account the session is registered under.
C5_OnlyOwnAccount ==
    \A c \in 1..Len(conns) : \A k \in 1..Len(conns[c].frames) :
       /\ conns[c].frames[k].device \in DOMAIN devices
       /\ devices[conns[c].frames[k].device] = conns[c].userId

\* Two sessions of different accounts are connected, the later one has received a
\* frame and the earlier one, registered all along, none.
C5_Witness ==
    \E c1, c2 \in 1..Len(conns) :
       /\ c2 < c1
       /\ conns[c1].state = "open" /\ conns[c2].state = "open"
       /\ conns[c1].userId # conns[c2].userId
       /\ conns[c1].frames # <<>>
       /\ conns[c2].frames = <<>>

-----------------------------------------------------------------------------
(* C6 *)

-----------------------------------------------------------------------------
(* C7 *)

\* C7: when a push of a fan-out raises, the fan-out still appends the frame to
\* every connected session of the account, and the handling runs to its end.
C7_RaisingPushSkipped ==
    [][\A h \in Handlers :
          (/\ FanOutStep(h)
           /\ \E c \in Sessions(reqs[h].userId) : conns[c].state = "erroring")
          => /\ \A c \in Sessions(reqs[h].userId) :
                    conns[c].state = "open" => ReceivesOnce(c, h)
             /\ reqs'[h].pc = "done"]_vars

-----------------------------------------------------------------------------
(* C8 *)

\* C8: once a call's row is inserted, the step that follows answers 200 whatever
\* the state of the message-queue client and of the sessions, and no step ever
\* removes or alters a row of the ledger.
C8_AcknowledgedOncePersisted ==
    [][/\ \A h \in Handlers :
            (FanOutStep(h) /\ reqs[h].trxError = NoError)
            => reqs'[h].response = <<200>>
       /\ Len(ledger') >= Len(ledger)
       /\ SubSeq(ledger', 1, Len(ledger)) = ledger]_vars

-----------------------------------------------------------------------------
(* C9 *)

\* C9: a call whose event type is not recognised is answered 200 in the step it
\* arrives in, which starts no owner lookup and leaves ledger, published messages,
\* sessions and registry as they are; the call takes no step after that.
C9_UnrecognisedIsNoOp ==
    [][\A h \in 1..Len(reqs') :
          reqs'[h].body.event_type # Completed
          => IF h > Len(reqs)
             THEN /\ reqs'[h].pc = "done"
                  /\ reqs'[h].response = <<200>>
                  /\ reqs'[h].userId = Undefined
                  /\ ledger' = ledger
                  /\ published' = published
                  /\ conns' = conns
                  /\ clients' = clients
             ELSE reqs'[h] = reqs[h]]_vars

\* An unrecognised event was answered 200 while a session was registered, the
\* message-queue client connected and a row in the ledger.
C9_Witness ==
    \E h \in Handlers :
       /\ reqs[h].body.event_type # Completed
       /\ reqs[h].response = <<200>>
       /\ mqttConnected
       /\ clients # <<>>
       /\ ledger # <<>>

-----------------------------------------------------------------------------
(* C10 *)

\* C10: a fan-out to an account one of whose sessions has disconnected does not
\* raise, pushes nothing to a connection that is not registered, and appends the
\* frame to every other registered session of the account.
C10_DisconnectDuringFanOut ==
    [][\A h \in Handlers :
          (/\ FanOutStep(h)
           /\ \E c \in 1..Len(conns) :
                 /\ conns[c].userId = reqs[h].userId
                 /\ conns[c].state \in {"erroring", "closed"})
          => /\ reqs'[h].pc # "threw"
             /\ \A c \in 1..Len(conns) :
                    c \notin Sessions(reqs[h].userId)
                    => conns'[c].frames = conns[c].frames
             /\ \A c \in Sessions(reqs[h].userId) :
                    conns[c].state = "open" => ReceivesOnce(c, h)]_vars

-----------------------------------------------------------------------------
(* C11 *)

\* The step that runs the 'close' callback of connection c
CloseStep(c) == conns[c].state \in {"open", "erroring"} /\ conns'[c].state = "closed"

\* Some entry of the registry carries handle id
Registered(list, id) == \E i \in 1..Len(list) : list[i].id = id

\* C11: a 'close' callback whose handle is not in the registry leaves the registry
\* exactly as it was, and after any 'close' callback the handle is not in the
\* registry, so that unregistering it again changes nothing.
C11_UnregisterIdempotent ==
    [][\A c \in 1..Len(conns) :
          CloseStep(c)
          => /\ ~Registered(clients, conns[c].clientId) => clients' = clients
             /\ ~Registered(clients', conns[c].clientId)]_vars

\* Two connections with one handle are both closed: the later 'close' found the
\* handle already gone.
C11_Witness ==
    \E c1, c2 \in 1..Len(conns) :
       /\ c1 # c2
       /\ conns[c1].clientId = conns[c2].clientId
       /\ conns[c1].state = "closed" /\ conns[c2].state = "closed"

-----------------------------------------------------------------------------
(* C12 *)

InFlight(h) == h \in Handlers /\ reqs[h].pc \in {"awaitOwner", "awaitInsert", "inserted"}

Answered(h) == h \in Handlers /\ reqs[h].response # <<>>

Raised(h) == h \in Handlers /\ reqs[h].pc = "threw"

\* C12: with no publish callback ever required to run, every call in flight, the
\* first as well as those that arrive after a publish was left unacknowledged, is
\* eventually answered, unless a push of its own fan-out raises.
C12_HungPublishDoesNotBlock ==
    \A h \in 1..MaxReq : [](InFlight(h) => <>(Answered(h) \/ Raised(h)))

\* A replay arrived after the first handling had published, and was answered 200
\* after its own publish, with both publish callbacks still outstanding.
C12_Witness ==
    /\ Len(reqs) = 2
    /\ reqs[2].idSeen = "completed"
    /\ reqs[1].response = <<200>> /\ reqs[2].response = <<200>>
    /\ Len(published) = 2
    /\ published[1].callback = "pending" /\ published[2].callback = "pending"

-----------------------------------------------------------------------------
(* C13 *)

\* The publishes made under request identifier tid
PublishesOf(tid) == {i \in 1..Len(published) : published[i].message.request_id = tid}

\* The frames session c has received under request identifier tid
FramesOf(c, tid) == {k \in 1..Len(conns[c].frames) : conns[c].frames[k].id = tid}

\* Calls g and h carry one request identifier and h arrived before g was through:
\* g's insert wrote the record, h's insert was refused as a duplicate.
Concurrent(g, h) ==
    /\ g < h
    /\ reqs[g].body.id # Undefined /\ reqs[h].body.id # Undefined
    /\ reqs[g].transactionId = reqs[h].transactionId
    /\ reqs[h].idSeen = "other"
    /\ reqs[g].pc \in {"inserted", "done", "threw"} /\ reqs[g].trxError = NoError
    /\ reqs[h].pc \in {"inserted", "done", "threw"} /\ reqs[h].trxError = "duplicate"

\* C13: when two calls with one request identifier are handled concurrently, that
\* identifier is published at most once and pushed at most once to each session.
C13_ConcurrentFanOutOnce ==
    \A g, h \in Handlers :
       Concurrent(g, h)
       => /\ Cardinality(PublishesOf(reqs[g].transactionId)) <= 1
          /\ \A c \in 1..Len(conns) : Cardinality(FramesOf(c, reqs[g].transactionId)) <= 1

-----------------------------------------------------------------------------
(* C14 *)

\* C14: in every step the ledger keeps the records it had, unchanged and in place,
\* and after it no two records carry the same request identifier.
C14_OneRecordPerId ==
    [][/\ Len(ledger') >= Len(ledger)
       /\ SubSeq(ledger', 1, Len(ledger)) = ledger
       /\ \A i, j \in 1..Len(ledger') :
             ledger'[i].request_id = ledger'[j].request_id => i = j]_vars

\* Two overlapping calls with one request identifier have both had their insert
\* executed, and the ledger holds one record of it.
C14_Witness ==
    \E g, h \in Handlers :
       /\ Concurrent(g, h)
       /\ Cardinality(RowsOf(ledger, reqs[g].transactionId)) = 1

-----------------------------------------------------------------------------
(* C15 *)

\* C15: a call reaches its insert only with its owner resolved; every message
\* published and every frame pushed is of a request identifier whose record is in
\* the ledger; and a recognised event is answered 200 only with its owner resolved
\* and its record in the ledger.
C15_StagesInOrder ==
    /\ \A h \in Handlers :
          reqs[h].pc \in {"awaitInsert", "inserted"} => reqs[h].userId \in Accounts
    /\ \A i \in 1..Len(published) :
          published[i].message.request_id \in RequestIds(ledger)
    /\ \A c \in 1..Len(conns) : \A k \in 1..Len(conns[c].frames) :
          conns[c].frames[k].id \in RequestIds(ledger)
    /\ \A h \in Handlers :
          (reqs[h].body.event_type = Completed /\ reqs[h].response = <<200>>)
          => /\ reqs[h].userId \in Accounts
             /\ reqs[h].transactionId \in RequestIds(ledger)

-----------------------------------------------------------------------------
(* C16 *)

\* C16: the 'close' callback of connection c keeps, in order, every entry of the
\* registry that is not c's own and removes c's, and leaves calls in flight, the
\* ledger and the published messages as they were.
C16_CloseRemovesOnlyItsEntry ==
    [][\A c \in 1..Len(conns) :
          CloseStep(c)
          => /\ clients' = SelectSeq(clients, LAMBDA e : e.res # c)
             /\ reqs' = reqs /\ ledger' = ledger /\ published' = published]_vars

-----------------------------------------------------------------------------
(* C17 *)

\* The amounts the webhook source sends, as decimal strings
Rendered(amount) == IF amount = 15000 THEN "15000" ELSE IF amount = 700 THEN "700" ELSE "?"

\* C17: every message published in the step that fans call h out goes to the topic
\* made of the prefix and h's own device identifier, and carries h's request
\* identifier and h's amount as a string.
C17_PublishAddressedToOwnDevice ==
    [][\A h \in Handlers :
          FanOutStep(h)
          => \A i \in (Len(published) + 1)..Len(published') :
                /\ published'[i].topic = "/HMZN/" \o reqs[h].deviceSerialNumber
                /\ published'[i].message.request_id = reqs[h].transactionId
                /\ published'[i].message.money = Rendered(reqs[h].amount)]_vars

\* The events of DEV-001 and of DEV-002 have each been published to their own topic.
C17_Witness ==
    /\ \E i \in 1..Len(published) :
          /\ published[i].topic = "/HMZN/DEV-001"
          /\ published[i].message = [request_id |-> "tx-1", money |-> "15000"]
    /\ \E i \in 1..Len(published) :
          /\ published[i].topic = "/HMZN/DEV-002"
          /\ published[i].message = [request_id |-> "tx-2", money |-> "700"]

-----------------------------------------------------------------------------
(* C18 *)

\* Call h's insert wrote record row
Produced(h, row) ==
    /\ reqs[h].pc \in {"inserted", "done", "threw"}
    /\ reqs[h].trxError = NoError
    /\ reqs[h].transactionId = row.request_id
    /\ reqs[h].body.id # Undefined => reqs[h].body.id = row.request_id
    /\ reqs[h].body.terminal_id = row.device_serial_number
    /\ reqs[h].body.amount = row.amount

\* C18: every record of the ledger is of a device of the directory, is tagged with
\* the account the directory gives for that device, and carries the device
\* identifier, the amount and the request identifier of a call that wrote it.
C18_RecordMatchesEventAndOwner ==
    \A i \in 1..Len(ledger) :
       /\ ledger[i].device_serial_number \in DOMAIN devices
       /\ ledger[i].user_id = devices[ledger[i].device_serial_number]
       /\ \E h \in Handlers : Produced(h, ledger[i])

\* The ledger holds (A1, DEV-001, 15000, tx-1) and (A2, DEV-002, 700, tx-2).
C18_Witness ==
    /\ \E i \in 1..Len(ledger) :
          /\ ledger[i].user_id = "A1" /\ ledger[i].device_serial_number = "DEV-001"
          /\ ledger[i].amount = 15000 /\ ledger[i].request_id = "tx-1"
    /\ \E i \in 1..Len(ledger) :
          /\ ledger[i].user_id = "A2" /\ ledger[i].device_serial_number = "DEV-002"
          /\ ledger[i].amount = 700 /\ ledger[i].request_id = "tx-2"

-----------------------------------------------------------------------------
(* C19 *)

\* C19: a call has been answered at most once, with 200 or with 404, and a call
\* whose handler has run to its end has been answered; one still waiting for the
\* store, or left by a push that raised, has not.
C19_ExactlyOneResponse ==
    \A h \in Handlers :
       /\ reqs[h].response \in {<<>>, <<200>>, <<404>>}
       /\ reqs[h].pc = "done" <=> reqs[h].response # <<>>

\* One call was rejected with 404 and another, of a recognised event, was
\* acknowledged with 200 after its fan-out.
C19_Witness ==
    \E g, h \in Handlers :
       /\ reqs[g].response = <<404>>
       /\ reqs[h].response = <<200>> /\ reqs[h].userId \in Accounts

====
